---------------------------- MODULE Spec2Model ----------------------------
(***************************************************************************)
(* Model of gunrock's graph storage layer:                                 *)
(*   - the unweighted dynamic graph wrapper Dyn<..., true, false>          *)
(*     (src/gunrock/graph/graph.hxx, lines 272-357),                       *)
(*   - graph_csr_t::get_source_vertex (graph.hxx, lines 97-101),           *)
(*   - algo::scan::device::scan (src/gunrock/algorithms/scan/scan.cuh).    *)
(*                                                                         *)
(* The specifications of the module: Spec (the dynamic graph), its parts   *)
(* SpecConvert (FromCsr, ToCsr) and SpecStaging (FromCsr,                  *)
(* DeleteEdgesBatch), SpecCsr (the CSR source-vertex lookup) and SpecScan  *)
(* (the scan primitive).  Each leaves the other components' variables at   *)
(* rest.                                                                   *)
(***************************************************************************)
EXTENDS Integers, Sequences, FiniteSets, TLC

(***************************************************************************)
(* Bounds of the model.                                                    *)
(***************************************************************************)
\* vertices of a graph handed to the dynamic graph
MaxNodes == 2
\* edge slots of a CSR handed to FromCsr
MaxCsrEdges == 2
\* pairs in one batch buffer
MaxBatch == 1
\* vertices and edges of a graph_csr_t queried by get_source_vertex
MaxCsrVertices == 4
MaxCsrEdgeIds == 5
\* length and element values of a scanned sequence
MaxScanLen == 3
MaxScanVal == 3

VARIABLES
    adj,          \* dynamicGraph: vertex -> set of neighbours (the slabs)
    nodes,        \* this->nodes
    edges,        \* this->edges
    is_directed,  \* this->is_directed
    built,        \* dynamicGraph.Allocate() has run (Empty -> Built)
    healthy,      \* no backend step has failed so far
    call,         \* the last completed call: what it was given and returned
    batch,        \* the pairs of the last InsertEdgesBatch and the graph before it
    inv,          \* set by a DeleteEdgesBatch that undoes the insert before it
    src,          \* the CSR the graph was built from, while nothing edited it
    out,          \* the destination CSR of the last ToCsr
    csr,          \* a graph_csr_t: its vertex and edge counts and row offsets
    query,        \* the last get_source_vertex(e) and what it returned
    prev,         \* the get_source_vertex call before it
    scanCall,     \* the last scan call: its arguments and the status returned
    output,       \* the scan's output buffer
    reduction,    \* the scan's reduction cell
    pending       \* the scan kernel is launched and has not completed

dynVars  == <<adj, nodes, edges, is_directed, built, healthy, call, batch, inv,
              src, out>>
csrVars  == <<csr, query, prev>>
scanVars == <<scanCall, output, reduction, pending>>
vars     == <<dynVars, csrVars, scanVars>>

(***************************************************************************)
(* Values.                                                                 *)
(***************************************************************************)
cudaSuccess == "cudaSuccess"
cudaError   == "cudaErrorUnknown"

HOST      == "HOST"
DEVICE    == "DEVICE"
Locations == {HOST, DEVICE}

NoBuf == "none"     \* nothing allocated at a location (a NULL pointer)
Data  == "data"     \* the caller's data, allocated at a location
None  == <<>>
Idle  == "idle"
Unwritten == 0 - 1  \* content of a destination slot the export did not write

Vertices == 0 .. (MaxNodes - 1)
Weights  == {1, 2}

Min(S) == CHOOSE x \in S : \A y \in S : x <= y
Max(S) == CHOOSE x \in S : \A y \in S : x >= y

(***************************************************************************)
(* util::Array1D / Csr buffers: what is allocated at each location.        *)
(***************************************************************************)
BufferAt(loc) == [l \in Locations |-> IF l = loc THEN Data ELSE NoBuf]
NoBuffers     == [l \in Locations |-> NoBuf]

\* Array1D::Move(source, target): allocates target and copies source to it
Move(b, source, target, fails) ==
    IF fails \/ b[source] = NoBuf THEN b
    ELSE [b EXCEPT ![target] = b[source]]

\* Array1D::Release(target): frees the allocation at target
Release(b, target) == [b EXCEPT ![target] = NoBuf]

\* Array1D::GetPointer(target)
GetPointer(b, target) == b[target]

(***************************************************************************)
(* The slab-hash graph behind the wrapper (this->dynamicGraph).            *)
(***************************************************************************)
EmptyAdj == [v \in Vertices |-> {}]

PairsOf(a) == {p \in Vertices \X Vertices : p[2] \in a[p[1]]}

Reverse(p) == <<p[2], p[1]>>

\* the pairs a batch names: its first batchSize pairs, doubled on request
BatchPairs(pairs, batchSize, double) ==
    LET fwd == {pairs[i] : i \in 1 .. batchSize}
    IN  IF double THEN fwd \cup {Reverse(p) : p \in fwd} ELSE fwd

\* dynamicGraph.DeleteEdgesBatch(d_edges, batch_size, double_batch_edges)
SlabDeleteEdgesBatch(a, pairs, batchSize, double) ==
    LET gone == BatchPairs(pairs, batchSize, double)
    IN  [v \in Vertices |-> {w \in a[v] : <<v, w>> \notin gone}]

\* dynamicGraph.BulkBuildFromCsr(row_offsets, column_indices, nodes, directed,
\* edge_values): every vertex's CSR neighbour range goes into its slab
SlabBulkBuildFromCsr(row_offsets, column_indices, n) ==
    [v \in Vertices |->
        IF v < n
        THEN {column_indices[i] : i \in (row_offsets[v + 1] + 1) .. row_offsets[v + 2]}
        ELSE {}]

\* the graph holding exactly the pairs of P
AdjOf(P) == [v \in Vertices |-> {w \in Vertices : <<v, w>> \in P}]

\* the states a faulting batch may leave behind: any part of its work done
Partial(lo, hi) ==
    {AdjOf(PairsOf(lo) \cup S) : S \in SUBSET (PairsOf(hi) \ PairsOf(lo))}

(***************************************************************************)
(* Prefix sums, as the export and the scan primitive compute them.         *)
(***************************************************************************)
RECURSIVE SumTo(_, _)
SumTo(xs, k) == IF k = 0 THEN 0 ELSE SumTo(xs, k - 1) + xs[k]

ExclusiveScan(xs) == [i \in 1 .. Len(xs) |-> SumTo(xs, i - 1)]
InclusiveScan(xs) == [i \in 1 .. Len(xs) |-> SumTo(xs, i)]
Reduction(xs)     == SumTo(xs, Len(xs))

RECURSIVE Ascending(_)
Ascending(S) ==
    IF S = {} THEN <<>> ELSE <<Min(S)>> \o Ascending(S \ {Min(S)})

RECURSIVE Descending(_)
Descending(S) ==
    IF S = {} THEN <<>> ELSE <<Max(S)>> \o Descending(S \ {Max(S)})

\* the order in which a slab hands out its entries is not specified
SlabOrder(S, ord) == IF ord = "asc" THEN Ascending(S) ELSE Descending(S)

\* dynamicGraph.ToCsr(d_row_offsets, d_col_indices, num_nodes, num_edges):
\* count per vertex, exclusive scan, scatter.  dst is the caller's CSR.
SlabToCsr(a, dst, ord) ==
    LET counts == [i \in 1 .. dst.nodes |-> Cardinality(a[i - 1])]
        offs   == ExclusiveScan(counts) \o <<Reduction(counts)>>
        total  == Reduction(counts)
        owner(e) == CHOOSE v \in 0 .. (dst.nodes - 1) :
                        offs[v + 1] < e /\ e <= offs[v + 2]
        cols   == [e \in 1 .. Len(dst.column_indices) |->
                     IF e <= total
                     THEN SlabOrder(a[owner(e)], ord)[e - offs[owner(e) + 1]]
                     ELSE dst.column_indices[e]]
    IN  [dst EXCEPT !.row_offsets = offs, !.column_indices = cols]

(***************************************************************************)
(* Inputs.                                                                 *)
(***************************************************************************)
Offsets(n, e) ==
    {ro \in [1 .. (n + 1) -> 0 .. e] :
        /\ ro[1] = 0
        /\ ro[n + 1] = e
        /\ \A i \in 1 .. n : ro[i] <= ro[i + 1]}

\* the CSR graphs a caller may hand to FromCsr
CsrInputs ==
    UNION {UNION {
        {[nodes |-> n, edges |-> e, directed |-> d, row_offsets |-> ro,
          column_indices |-> ci, edge_values |-> ev] :
            ro \in Offsets(n, e), ci \in [1 .. e -> 0 .. (n - 1)],
            ev \in {[i \in 1 .. e |-> w] : w \in Weights}, d \in BOOLEAN}
        : e \in 0 .. MaxCsrEdges} : n \in 1 .. MaxNodes}

\* the batch buffers a caller may hand over: pairs of vertices of the graph
BatchInputs(n) ==
    UNION {[1 .. k -> (0 .. (n - 1)) \X (0 .. (n - 1))] : k \in 0 .. MaxBatch}

\* a destination CSR as the caller allocates it: sized from the graph's own
\* number_of_vertices() and number_of_edges(), its slots not yet written
Destination(n, e, fill) ==
    [nodes |-> n, edges |-> e,
     row_offsets |-> [i \in 1 .. (n + 1) |-> Unwritten],
     column_indices |-> [i \in 1 .. e |-> Unwritten],
     edge_values |-> [i \in 1 .. e |-> fill]]

NoCall ==
    [op |-> Idle, ret |-> cudaSuccess, fail |-> "none", target |-> DEVICE,
     log |-> <<>>, buf0 |-> NoBuffers, buf |-> NoBuffers, ptr |-> NoBuf]

(***************************************************************************)
(* Dyn<..., true, false>: the handlers.  Each returns what the call leaves *)
(* behind: the graphs the backend may produce, the caller's buffer, the    *)
(* collaborator calls made in order, and the status returned.              *)
(***************************************************************************)

\* InsertEdgesBatch: the body is `return cudaSuccess;`
InsertEdgesBatchCall(a, pairs, batchSize, batch_directed, target) ==
    [adjs |-> {a}, log |-> <<>>, ret |-> cudaSuccess]

\* a delete that always doubles the batch
DeleteEdgesBatchDoubling(a, directed, pairs, batchSize, target, fail) ==
    LET b0   == BufferAt(target)
        b1   == IF target # DEVICE THEN Move(b0, HOST, DEVICE, fail = "move") ELSE b0
        ptr  == GetPointer(b1, DEVICE)
        done == SlabDeleteEdgesBatch(a, pairs, batchSize, TRUE)
        b2   == IF target # DEVICE THEN Release(b1, DEVICE) ELSE b1
    IN  [adjs |-> IF fail = "none" /\ ptr # NoBuf THEN {done} ELSE Partial(done, a),
         buf  |-> b2,
         log  |-> (IF target # DEVICE THEN <<"Move(HOST,DEVICE)">> ELSE <<>>)
                  \o <<"DeleteEdgesBatch">>
                  \o (IF target # DEVICE THEN <<"Release(DEVICE)">> ELSE <<>>),
         ptr  |-> ptr,
         ret  |-> cudaSuccess]

\* a delete that forgets to release its staged copy
DeleteEdgesBatchLeaking(a, directed, pairs, batchSize, target, fail) ==
    LET b0   == BufferAt(target)
        b1   == IF target # DEVICE THEN Move(b0, HOST, DEVICE, fail = "move") ELSE b0
        ptr  == GetPointer(b1, DEVICE)
        done == SlabDeleteEdgesBatch(a, pairs, batchSize, ~directed)
    IN  [adjs |-> IF fail = "none" /\ ptr # NoBuf THEN {done} ELSE Partial(done, a),
         buf  |-> b1,
         log  |-> (IF target # DEVICE THEN <<"Move(HOST,DEVICE)">> ELSE <<>>)
                  \o <<"DeleteEdgesBatch">>,
         ptr  |-> ptr,
         ret  |-> cudaSuccess]

\* DeleteEdgesBatch(edges, batchSize, target)
DeleteEdgesBatchCall(a, directed, pairs, batchSize, target, fail) ==
    LET b0   == BufferAt(target)
        \* if (target != util::DEVICE) edges.Move(util::HOST, util::DEVICE);
        b1   == IF target # DEVICE THEN Move(b0, HOST, DEVICE, fail = "move") ELSE b0
        \* dynamicGraph.DeleteEdgesBatch(edges.GetPointer(DEVICE), batchSize,
        \*                               !this->is_directed);
        ptr  == GetPointer(b1, DEVICE)
        done == SlabDeleteEdgesBatch(a, pairs, batchSize, ~directed)
        \* if (target != util::DEVICE) edges.Release(util::DEVICE);
        b2   == IF target # DEVICE THEN Release(b1, DEVICE) ELSE b1
    IN  [adjs |-> IF fail = "none" /\ ptr # NoBuf THEN {done} ELSE Partial(done, a),
         buf  |-> b2,
         log  |-> (IF target # DEVICE THEN <<"Move(HOST,DEVICE)">> ELSE <<>>)
                  \o <<"DeleteEdgesBatch">>
                  \o (IF target # DEVICE THEN <<"Release(DEVICE)">> ELSE <<>>),
         ptr  |-> ptr,
         \* return cudaSuccess;
         ret  |-> cudaSuccess]

\* a bulk build that allocates the slabs and never fills them
FromCsrUnfilled(c, target, fail) ==
    LET b0   == BufferAt(target)
        b1   == IF target # HOST THEN Move(b0, DEVICE, HOST, fail = "move") ELSE b0
        ptr  == GetPointer(b1, HOST)
        b2   == IF target # HOST THEN Release(b1, HOST) ELSE b1
    IN  [adjs |-> {EmptyAdj},
         buf  |-> b2,
         log  |-> (IF target # HOST THEN <<"Move(DEVICE,HOST)">> ELSE <<>>)
                  \o <<"Allocate", "BulkBuildFromCsr">>
                  \o (IF target # HOST THEN <<"Release(HOST)">> ELSE <<>>),
         ptr  |-> ptr,
         nodes |-> c.nodes,
         edges |-> c.edges,
         ret  |-> cudaSuccess]

\* FromCsr(csr, target)
FromCsrCall(c, target, fail) ==
    LET b0   == BufferAt(target)
        \* if (target != util::HOST) csr.Move(util::DEVICE, util::HOST);
        b1   == IF target # HOST THEN Move(b0, DEVICE, HOST, fail = "move") ELSE b0
        \* dynamicGraph.Allocate(); dynamicGraph.BulkBuildFromCsr(
        \*   row_offsets(HOST), column_indices(HOST), csr.nodes, csr.directed,
        \*   edge_values(HOST));
        ptr  == GetPointer(b1, HOST)
        full == SlabBulkBuildFromCsr(c.row_offsets, c.column_indices, c.nodes)
        \* if (target != util::HOST) csr.Release(util::HOST);
        b2   == IF target # HOST THEN Release(b1, HOST) ELSE b1
    IN  [adjs |-> IF fail = "none" /\ ptr # NoBuf THEN {full}
                  ELSE Partial(EmptyAdj, full),
         buf  |-> b2,
         log  |-> (IF target # HOST THEN <<"Move(DEVICE,HOST)">> ELSE <<>>)
                  \o <<"Allocate", "BulkBuildFromCsr">>
                  \o (IF target # HOST THEN <<"Release(HOST)">> ELSE <<>>),
         ptr  |-> ptr,
         \* this->nodes = csr.nodes; this->edges = csr.edges;
         nodes |-> c.nodes,
         edges |-> c.edges,
         \* return cudaSuccess;
         ret  |-> cudaSuccess]

\* ToCsr(csr): dynamicGraph.ToCsr(row_offsets(DEVICE), column_indices(DEVICE),
\*                                csr.nodes, csr.edges); return cudaSuccess;
ToCsrCall(a, dst, ord, fail) ==
    [outs |-> IF fail = "none" THEN {SlabToCsr(a, dst, ord)}
              ELSE {dst, SlabToCsr(a, dst, ord)},
     ret  |-> cudaSuccess]

(***************************************************************************)
(* The dynamic graph as a state machine.                                   *)
(***************************************************************************)
InitDyn ==
    /\ adj = EmptyAdj
    /\ nodes = 0
    /\ edges = 0
    /\ built = FALSE
    /\ healthy = TRUE
    /\ call = NoCall
    /\ batch = None
    /\ inv = None
    /\ src = None
    /\ out = None

InsertEdgesBatch ==
    /\ healthy
    /\ \E pairs \in BatchInputs(nodes), batch_directed \in BOOLEAN,
         target \in Locations :
      \E batchSize \in 0 .. Len(pairs) :
        \E r \in {InsertEdgesBatchCall(adj, pairs, batchSize, batch_directed,
                                        target)} :
            /\ \E a \in r.adjs : adj' = a
            /\ call' = [NoCall EXCEPT !.op = "Insert", !.ret = r.ret,
                                       !.log = r.log]
            /\ batch' = <<[pairs |-> SubSeq(pairs, 1, batchSize),
                           directed |-> batch_directed, D |-> adj]>>
            /\ inv' = None
            /\ src' = None
            /\ out' = None
            /\ UNCHANGED <<nodes, edges, is_directed, built, healthy>>
            /\ UNCHANGED <<csrVars, scanVars>>

DeleteEdgesBatch ==
    /\ healthy
    /\ \E pairs \in BatchInputs(nodes), target \in Locations,
         fail \in {"none", "move", "op"} :
      \E batchSize \in 0 .. Len(pairs) :
        /\ fail = "move" => target # DEVICE
        /\ \E r \in {DeleteEdgesBatchCall(adj, is_directed, pairs, batchSize,
                                           target, fail)},
              B \in {SubSeq(pairs, 1, batchSize)} :
               /\ \E a \in r.adjs : adj' = a
               /\ call' = [op |-> "Delete", ret |-> r.ret, fail |-> fail,
                           target |-> target, log |-> r.log,
                           buf0 |-> BufferAt(target), buf |-> r.buf, ptr |-> r.ptr]
               /\ inv' = IF /\ call.op = "Insert"
                            /\ batch[1].pairs = B
                            /\ fail = "none"
                            /\ \A i \in 1 .. Len(B) : B[i] \notin PairsOf(batch[1].D)
                         THEN <<[D |-> batch[1].D, B |-> B]>>
                         ELSE None
               /\ healthy' = (healthy /\ fail = "none")
               /\ batch' = None
               /\ src' = None
               /\ out' = None
               /\ UNCHANGED <<nodes, edges, is_directed, built>>
               /\ UNCHANGED <<csrVars, scanVars>>

FromCsr ==
    /\ healthy
    /\ ~built
    /\ \E c \in CsrInputs, target \in Locations,
          fail \in {"none", "move", "alloc", "build"} :
        /\ fail = "move" => target # HOST
        /\ \E r \in {FromCsrCall(c, target, fail)} :
               /\ \E a \in r.adjs : adj' = a
               /\ nodes' = r.nodes
               /\ edges' = r.edges
               /\ call' = [op |-> "FromCsr", ret |-> r.ret, fail |-> fail,
                           target |-> target, log |-> r.log,
                           buf0 |-> BufferAt(target), buf |-> r.buf, ptr |-> r.ptr]
               /\ src' = IF fail = "none"
                         THEN <<[nodes |-> c.nodes, edges |-> c.edges,
                                 row_offsets |-> c.row_offsets,
                                 column_indices |-> c.column_indices,
                                 edge_values |-> c.edge_values]>>
                         ELSE None
               /\ healthy' = (healthy /\ fail = "none")
               /\ built' = TRUE
               /\ batch' = None
               /\ inv' = None
               /\ out' = None
               /\ UNCHANGED is_directed
               /\ UNCHANGED <<csrVars, scanVars>>

ToCsr ==
    /\ healthy
    /\ \E ord \in {"asc", "desc"}, fill \in Weights \cup {Unwritten},
         fail \in {"none", "op"} :
        \E dst \in {Destination(nodes, edges, fill)} :
          \E r \in {ToCsrCall(adj, dst, ord, fail)} :
            /\ \E o \in r.outs : out' = <<[csr |-> o, given |-> dst]>>
            /\ call' = [NoCall EXCEPT !.op = "ToCsr", !.ret = r.ret,
                                       !.fail = fail, !.log = <<"ToCsr">>]
            /\ healthy' = (healthy /\ fail = "none")
            /\ batch' = None
            /\ inv' = None
            /\ UNCHANGED <<adj, nodes, edges, is_directed, built, src>>
            /\ UNCHANGED <<csrVars, scanVars>>

(***************************************************************************)
(* graph_csr_t::get_source_vertex.                                         *)
(***************************************************************************)

\* algo::search::binary::rightmost(elements, key, count): the greatest index
\* in [0, count) whose element does not exceed key, by bisection
RECURSIVE RightmostSearch(_, _, _, _)
RightmostSearch(elements, key, begin, end) ==
    IF begin >= end THEN end - 1
    ELSE LET mid == (begin + end) \div 2
         IN  IF elements[mid + 1] > key
             THEN RightmostSearch(elements, key, begin, mid)
             ELSE RightmostSearch(elements, key, mid + 1, end)

Rightmost(elements, key, count) == RightmostSearch(elements, key, 0, count)

\* a lookup that leaves the last vertex out of the search
get_source_vertex_short(g, e) ==
    Rightmost(g.row_offsets, e, g.number_of_vertices - 1)

\* return rightmost(csr.row_offsets.get(), e, _number_of_vertices);
get_source_vertex(g, e) ==
    Rightmost(g.row_offsets, e, g.number_of_vertices)

\* the CSR graphs queried: every valid row_offsets within the bounds
CsrGraphs ==
    UNION {UNION {
        {[number_of_vertices |-> n, number_of_edges |-> e, row_offsets |-> ro] :
            ro \in Offsets(n, e)}
        : e \in 0 .. MaxCsrEdgeIds} : n \in 1 .. MaxCsrVertices}

NoCsr == [number_of_vertices |-> 0, number_of_edges |-> 0, row_offsets |-> <<0>>]

CsrIdle == csr = NoCsr /\ query = None /\ prev = None

InitCsr == csr \in CsrGraphs /\ query = None /\ prev = None

GetSourceVertex ==
    \E e \in 0 .. (csr.number_of_edges - 1) :      \* assert(e < _number_of_edges)
        /\ query' = <<[e |-> e, v |-> get_source_vertex(csr, e)]>>
        /\ prev' = query
        /\ UNCHANGED <<csr, dynVars, scanVars>>

(***************************************************************************)
(* algo::scan::device::scan.                                               *)
(***************************************************************************)

\* mgpu::scan<scan_type>(input, count, output, op, reduction, context) with
\* op = mgpu::plus_t: what the kernel writes once it has run
MgpuScan(scan_type, input, count) ==
    LET xs == SubSeq(input, 1, count)
    IN  [output    |-> IF scan_type = "inclusive" THEN InclusiveScan(xs)
                       ELSE ExclusiveScan(xs),
         reduction |-> Reduction(xs)]

ScanInputs ==
    UNION {[1 .. n -> 0 .. MaxScanVal] : n \in 0 .. MaxScanLen}

NoScan ==
    [op |-> Idle, scan_type |-> "exclusive", input |-> <<>>, sync |-> FALSE,
     fail |-> "none", ret |-> cudaSuccess]

ScanIdle ==
    /\ scanCall = NoScan
    /\ output = <<>>
    /\ reduction = Unwritten
    /\ pending = FALSE

InitScan == ScanIdle

\* scan<scan_type>(input, num_items, output, reduction, op, context, sync):
\* launches mgpu::scan on the context's stream and returns retval, which is
\* set to cudaSuccess and never assigned again; `if (sync) { }` is empty
Scan ==
    /\ ~pending
    /\ \E input \in ScanInputs, scan_type \in {"inclusive", "exclusive"},
          sync \in BOOLEAN, fail \in {"none", "kernel"} :
        /\ scanCall' = [op |-> "scan", scan_type |-> scan_type, input |-> input,
                        sync |-> sync, fail |-> fail, ret |-> cudaSuccess]
        /\ output' = [i \in 1 .. Len(input) |-> Unwritten]
        /\ reduction' = Unwritten
        /\ pending' = (fail = "none")
        /\ UNCHANGED <<dynVars, csrVars>>

\* the launched kernel runs to completion on the device
KernelComplete ==
    /\ pending
    /\ LET r == MgpuScan(scanCall.scan_type, scanCall.input, Len(scanCall.input))
       IN  /\ output' = r.output
           /\ reduction' = r.reduction
    /\ pending' = FALSE
    /\ UNCHANGED <<scanCall, dynVars, csrVars>>

(***************************************************************************)
(* Specifications.                                                         *)
(***************************************************************************)
DynIdle == InitDyn /\ is_directed = FALSE

\* the dynamic graph under every call sequence of its controlling thread
Init == InitDyn /\ is_directed \in BOOLEAN /\ CsrIdle /\ ScanIdle
Next == InsertEdgesBatch \/ DeleteEdgesBatch \/ FromCsr \/ ToCsr
Spec == Init /\ [][Next]_vars

\* the conversions alone: bulk build, then exports
NextConvert == FromCsr \/ ToCsr
SpecConvert == Init /\ [][NextConvert]_vars

\* the calls that cross the host/device boundary with a caller's buffer
NextStaging == FromCsr \/ DeleteEdgesBatch
SpecStaging == Init /\ [][NextStaging]_vars

\* source-vertex lookups on a CSR graph
InitCsrSpec == DynIdle /\ InitCsr /\ ScanIdle
NextCsr == GetSourceVertex
SpecCsr == InitCsrSpec /\ [][NextCsr]_vars

\* the scan primitive and its kernel
InitScanSpec == DynIdle /\ CsrIdle /\ InitScan
NextScan == Scan \/ KernelComplete
SpecScan == InitScanSpec /\ [][NextScan]_vars

(***************************************************************************)
(* Helpers of the properties.                                              *)
(***************************************************************************)
\* the slots of vertex v in CSR c, and the neighbours they hold
SlotsOf(c, v) == (c.row_offsets[v + 1] + 1) .. c.row_offsets[v + 2]
SliceOf(c, v) == {c.column_indices[i] : i \in SlotsOf(c, v)}

NoDuplicateEdges(c) ==
    \A v \in 0 .. (c.nodes - 1) :
        Cardinality(SliceOf(c, v)) = Cardinality(SlotsOf(c, v))

\* the weight CSR c gives the pair (v, w)
WeightOf(c, v, w) ==
    c.edge_values[CHOOSE i \in SlotsOf(c, v) : c.column_indices[i] = w]

\* c is a CSR (section 3 of the data model) holding exactly the pairs of a
IsCsrOf(c, a) ==
    /\ c.row_offsets[1] = 0
    /\ \A v \in 0 .. (c.nodes - 1) : c.row_offsets[v + 1] <= c.row_offsets[v + 2]
    /\ c.row_offsets[c.nodes + 1] = c.edges
    /\ \A v \in Vertices :
          IF v < c.nodes
          THEN /\ SliceOf(c, v) = a[v]
               /\ Cardinality(SlotsOf(c, v)) = Cardinality(a[v])
          ELSE a[v] = {}

Completed(op) == call.op = op /\ call.fail = "none" /\ healthy

(***************************************************************************)
(* C1.  After a completed InsertEdgesBatch every pair among the first      *)
(* batch_size pairs of the batch is in its source's neighbour set, and     *)
(* with batch_directed = false so is the reverse pair.                     *)
(***************************************************************************)
C1_InsertedPairsPresent ==
    Completed("Insert") =>
        \A i \in 1 .. Len(batch[1].pairs) :
            LET p == batch[1].pairs[i]
            IN  /\ p[2] \in adj[p[1]]
                /\ ~batch[1].directed => p[1] \in adj[p[2]]

RoundTrip ==
    /\ Completed("ToCsr")
    /\ src # None
    /\ NoDuplicateEdges(src[1])

C3_RoundTripWithWeights ==
    RoundTrip =>
        /\ out[1].csr.nodes = src[1].nodes
        /\ \A v \in 0 .. (src[1].nodes - 1) :
              /\ SliceOf(out[1].csr, v) = SliceOf(src[1], v)
              /\ \A i \in SlotsOf(out[1].csr, v) :
                    out[1].csr.edge_values[i] =
                        WeightOf(src[1], v, out[1].csr.column_indices[i])

C3_RoundTripNeighbours ==
    RoundTrip =>
        /\ out[1].csr.nodes = src[1].nodes
        /\ \A v \in 0 .. (src[1].nodes - 1) :
              SliceOf(out[1].csr, v) = SliceOf(src[1], v)
        /\ out[1].csr.edge_values = out[1].given.edge_values

\* a round trip of a graph with two edges that come back in another order
C3_Witness ==
    /\ RoundTrip
    /\ src[1].edges >= 2
    /\ out[1].csr.column_indices # src[1].column_indices

(***************************************************************************)
(* C4.  A completed ToCsr leaves a destination CSR with row_offsets[0] = 0,*)
(* non-decreasing row_offsets, row_offsets[number_of_vertices] equal to    *)
(* the destination's number_of_edges, and exactly the pairs the dynamic    *)
(* graph holds; the export leaves the dynamic graph unchanged.             *)
(***************************************************************************)
C4_ExportIsCsrOfGraph ==
    [][ (call'.op = "ToCsr" /\ call'.fail = "none" /\ healthy')
        => /\ IsCsrOf(out'[1].csr, adj')
           /\ adj' = adj /\ nodes' = nodes /\ edges' = edges ]_vars

(***************************************************************************)
(* C5.  Once an InsertEdgesBatch or a FromCsr bulk build has completed,    *)
(* each vertex's neighbour set holds every destination inserted for it     *)
(* (no lost update), each exactly once (no duplicate).                     *)
(***************************************************************************)
InsertedFor(v) ==
    IF call.op = "FromCsr" THEN SliceOf(src[1], v)
    ELSE {p[2] : p \in {q \in BatchPairs(batch[1].pairs, Len(batch[1].pairs),
                                          ~batch[1].directed) : q[1] = v}}

C5_NoLostNoDuplicateInsert ==
    (Completed("Insert") \/ Completed("FromCsr")) =>
        \A v \in 0 .. (nodes - 1) :
            /\ InsertedFor(v) \subseteq adj[v]
            /\ \A w \in InsertedFor(v) :
                  Cardinality({x \in adj[v] : x = w}) = 1

(***************************************************************************)
(* C6.  An operation one of whose backend steps failed returns a failure   *)
(* status, never cudaSuccess.                                              *)
(***************************************************************************)
C6_BackendFailureReturned ==
    /\ call.fail # "none" => call.ret # cudaSuccess
    /\ scanCall.fail # "none" => scanCall.ret # cudaSuccess

(***************************************************************************)
(* C7.  Staging discipline of DeleteEdgesBatch (which needs its batch on   *)
(* the device) and FromCsr (which needs its CSR on the host).  Data at     *)
(* another residency is first moved to the required one, then the          *)
(* operation runs, then the staged copy is released, whether or not a step *)
(* failed; data already at the required residency is neither moved nor     *)
(* released; the caller's buffer at its own residency stays as it was.     *)
(***************************************************************************)
Required    == IF call.op = "Delete" THEN DEVICE ELSE HOST
Operation   == IF call.op = "Delete" THEN <<"DeleteEdgesBatch">>
               ELSE <<"Allocate", "BulkBuildFromCsr">>
StageCall   == IF call.op = "Delete" THEN "Move(HOST,DEVICE)" ELSE "Move(DEVICE,HOST)"
UnstageCall == IF call.op = "Delete" THEN "Release(DEVICE)" ELSE "Release(HOST)"

C8_SourceVertexIsRightmost ==
    query # None =>
        /\ query[1].v \in 0 .. (csr.number_of_vertices - 1)
        /\ csr.row_offsets[query[1].v + 1] <= query[1].e
        /\ query[1].e < csr.row_offsets[query[1].v + 2]
        /\ \A i \in 0 .. csr.number_of_vertices :
              csr.row_offsets[i + 1] <= query[1].e => i <= query[1].v
        /\ (prev # None /\ prev[1].e <= query[1].e) => prev[1].v <= query[1].v

\* two lookups on a graph with a zero-degree vertex between their sources
C8_Witness ==
    /\ query # None
    /\ prev # None
    /\ prev[1].e < query[1].e
    /\ prev[1].v + 1 < query[1].v
    /\ csr.row_offsets[query[1].v] = csr.row_offsets[query[1].v + 1]
    /\ csr.row_offsets[csr.number_of_vertices] < csr.number_of_edges

(***************************************************************************)
(* C9.  With addition, scan writes output[i] = input[0] + ... + input[i-1] *)
(* in exclusive mode and input[0] + ... + input[i] in inclusive mode, and  *)
(* the total to the reduction cell; with sync = true these results are     *)
(* complete when scan returns.                                             *)
(***************************************************************************)
C9_ScanResultsComplete ==
    ( /\ scanCall.op = "scan"
      /\ scanCall.fail = "none"
      /\ scanCall.sync \/ ~pending )
    => /\ Len(output) = Len(scanCall.input)
       /\ \A i \in 1 .. Len(scanCall.input) :
             output[i] = SumTo(scanCall.input,
                               IF scanCall.scan_type = "inclusive" THEN i
                               ELSE i - 1)
       /\ reduction = SumTo(scanCall.input, Len(scanCall.input))

(***************************************************************************)
(* C10.  While every operation so far has completed, the recorded number   *)
(* of edges is the number of distinct pairs the dynamic graph holds.       *)
(***************************************************************************)
C10_EdgeCountIsPairCount ==
    healthy => edges = Cardinality(PairsOf(adj))
=============================================================================
